---- MODULE Spec2Model ----
(***************************************************************************)
(* Configuration engine of setup.py: the template/instance merger          *)
(* (compare_and_update), the synchroniser (sync_yaml_with_template) and    *)
(* the root of the interactive navigator (update_yaml_interactively).      *)
(*                                                                         *)
(* Documents are YAML values as yaml.safe_load returns them: a mapping, a  *)
(* sequence or a scalar.  A Python reference to an object that belongs to  *)
(* the in-memory template is modelled as a "ref" node holding the path of  *)
(* that object in the template, so that sharing (the absence of a deep     *)
(* copy) and writes through a shared object can be told apart from copies. *)
(***************************************************************************)
EXTENDS Integers, Sequences, FiniteSets, TLC

(***************************************************************************)
(* Bounds of the model.                                                    *)
(***************************************************************************)
\* number of nodes of the instance and of the template together
MaxNodes == 5

(***************************************************************************)
(* Documents.                                                              *)
(***************************************************************************)
Null == [k |-> "null"]
StrV(s) == [k |-> "str", s |-> s]
IntV(n) == [k |-> "int", n |-> n]
\* floats are modelled by their numeric value (integral values only)
FloatV(n) == [k |-> "float", n |-> n]
BoolV(n) == [k |-> "bool", n |-> n]
Dict(m) == [k |-> "map", m |-> m]
List(e) == [k |-> "seq", e |-> e]
\* the object of the in-memory template found at path p
Ref(p) == [k |-> "ref", p |-> p]

EmptyDict == Dict(<<>>)
EmptyList == List(<<>>)

\* path segments: a mapping key or a 0-based sequence index
Key(name) == [key |-> name]
Idx(i) == [idx |-> i]

IsDict(d) == d.k = "map"
IsList(d) == d.k = "seq"
IsRef(d) == d.k = "ref"
IsNumber(d) == d.k \in {"int", "float", "bool"}
IsScalar(d) == d.k \in {"null", "str", "int", "float", "bool"}

\* Python's == on documents: numbers compare by value whatever their type
\* (1 == 1.0 == True), containers compare element by element.
RECURSIVE PyEq(_, _)
PyEq(a, b) ==
    IF IsNumber(a) /\ IsNumber(b) THEN a.n = b.n
    ELSE IF a.k # b.k THEN FALSE
    ELSE IF a.k = "str" THEN a.s = b.s
    ELSE IF a.k = "null" THEN TRUE
    ELSE IF a.k = "map" THEN
        /\ DOMAIN a.m = DOMAIN b.m
        /\ \A key \in DOMAIN a.m : PyEq(a.m[key], b.m[key])
    ELSE IF a.k = "seq" THEN
        /\ Len(a.e) = Len(b.e)
        /\ \A i \in 1..Len(a.e) : PyEq(a.e[i], b.e[i])
    ELSE a = b

\* number of nodes of a document
RECURSIVE Size(_)
Size(d) ==
    IF IsDict(d) THEN
        LET RECURSIVE Sum(_)
            Sum(K) == IF K = {} THEN 0
                      ELSE LET key == CHOOSE key \in K : TRUE
                           IN Size(d.m[key]) + Sum(K \ {key})
        IN 1 + Sum(DOMAIN d.m)
    ELSE IF IsList(d) THEN
        LET RECURSIVE SumTo(_)
            SumTo(i) == IF i = 0 THEN 0 ELSE Size(d.e[i]) + SumTo(i - 1)
        IN 1 + SumTo(Len(d.e))
    ELSE 1

(***************************************************************************)
(* Paths and references.                                                   *)
(***************************************************************************)
\* the child of container d under path segment seg
Child(d, seg) == IF IsDict(d) THEN d.m[seg.key] ELSE d.e[seg.idx + 1]

HasChild(d, seg) ==
    \/ IsDict(d) /\ DOMAIN seg = {"key"} /\ seg.key \in DOMAIN d.m
    \/ IsList(d) /\ DOMAIN seg = {"idx"} /\ seg.idx \in 0..(Len(d.e) - 1)

\* target[p] for each p in path, as get_value_from_path walks it
RECURSIVE At(_, _)
At(d, path) == IF path = <<>> THEN d ELSE At(Child(d, Head(path)), Tail(path))

\* d with the slot seg of the container d holding v: d[seg] = v
PutChild(d, seg, v) ==
    IF IsDict(d)
    THEN Dict([key \in DOMAIN d.m \cup {seg.key} |->
                  IF key = seg.key THEN v ELSE d.m[key]])
    ELSE List([i \in 1..Len(d.e) |-> IF i = seg.idx + 1 THEN v ELSE d.e[i]])

\* the tree t after the assignment t[path[1]]...[path[n]] = v
RECURSIVE SetAt(_, _, _)
SetAt(t, path, v) ==
    IF path = <<>> THEN v
    ELSE PutChild(t, Head(path), SetAt(Child(t, Head(path)), Tail(path), v))

\* the value a document denotes, every reference followed into template t
RECURSIVE Deref(_, _)
Deref(d, t) ==
    IF IsRef(d) THEN At(t, d.p)
    ELSE IF IsDict(d) THEN Dict([key \in DOMAIN d.m |-> Deref(d.m[key], t)])
    ELSE IF IsList(d) THEN List([i \in 1..Len(d.e) |-> Deref(d.e[i], t)])
    ELSE d

\* does the document hold an object of the template
RECURSIVE HasRef(_)
HasRef(d) ==
    IF IsRef(d) THEN TRUE
    ELSE IF IsDict(d) THEN \E key \in DOMAIN d.m : HasRef(d.m[key])
    ELSE IF IsList(d) THEN \E i \in 1..Len(d.e) : HasRef(d.e[i])
    ELSE FALSE

\* The assignment d[path[1]]...[path[n]] = v on the object graph: the write
\* lands in the template when the container written to is a template object.
\* A template object sits in the document at the path it has in the
\* template, so writing one into a template container stores it where it
\* already is.  Returns the document and the template after the write.
RECURSIVE Assign(_, _, _, _)
Assign(d, t, path, v) ==
    IF IsRef(d)
    THEN [doc |-> d,
          tmpl |-> IF IsRef(v) THEN t ELSE SetAt(t, d.p \o path, v)]
    ELSE IF Len(path) = 1 THEN [doc |-> PutChild(d, Head(path), v), tmpl |-> t]
    ELSE LET r == Assign(Child(d, Head(path)), t, Tail(path), v)
         IN [doc |-> PutChild(d, Head(path), r.doc), tmpl |-> r.tmpl]

\* the paths of the slots of a document (every position but the root);
\* a reference is followed into the template t
RECURSIVE Slots(_, _)
Slots(d, t) ==
    LET dd == IF IsRef(d) THEN At(t, d.p) ELSE d
        segs == IF IsDict(dd) THEN {Key(key) : key \in DOMAIN dd.m}
                ELSE IF IsList(dd) THEN {Idx(i - 1) : i \in 1..Len(dd.e)}
                ELSE {}
    IN UNION {{<<seg>>} \cup {<<seg>> \o q : q \in Slots(Child(dd, seg), t)} :
              seg \in segs}

(***************************************************************************)
(* The merger: compare_and_update(existing, template).                     *)
(* The template argument is a reference, modelled as the value and its     *)
(* path in the template.  The result is the pair the code returns:         *)
(* doc is the updated value, ret the retained values.  Python's None is    *)
(* the null scalar.                                                        *)
(***************************************************************************)
\* no copy: the template's own object (a scalar is immutable, sharing it
\* cannot be observed)
DeepCopy_Shared(template, tpath) ==
    IF IsScalar(template) THEN template ELSE Ref(tpath)
\* copy.deepcopy(template): a new object, equal in value, sharing nothing
DeepCopy(template, tpath) == template

\* retained_sub_values not in [None, {}, []]
NotEmptyRetained(r) == r \notin {Null, EmptyDict, EmptyList}

\* a value of another type than the template's is not kept
KeepsExisting_SameType(existing, template) ==
    existing.k = template.k /\ ~PyEq(existing, template) /\ existing # Null
\* existing != template and existing is not None
KeepsExisting(existing, template) ==
    ~PyEq(existing, template) /\ existing # Null

\* the keys of the template missing from existing are not added
MergedKeys_NoAdd(existing, template) == DOMAIN existing.m
\* the keys of the merged mapping: existing[key] is assigned for every key of
\* the template, and no key of existing is deleted
MergedKeys(existing, template) == DOMAIN existing.m \cup DOMAIN template.m

\* the index the slice template[len(existing):] starts at
TailStart_OffByOne(existing) ==
    IF Len(existing.e) = 0 THEN 0 ELSE Len(existing.e) - 1
TailStart(existing) == Len(existing.e)

\* the extra elements of a longer instance are not retained
RetainedList_NoExtra(rets, extra) ==
    SelectSeq(rets, LAMBDA r : NotEmptyRetained(r))
\* the sequence of the non-empty entries of rets followed by extra
RetainedList(rets, extra) ==
    SelectSeq(rets, LAMBDA r : NotEmptyRetained(r)) \o extra

RECURSIVE compare_and_update(_, _, _)
compare_and_update(existing, template, tpath) ==
    IF IsDict(template) THEN
        IF ~IsDict(existing)
        THEN [doc |-> DeepCopy(template, tpath), ret |-> EmptyDict]
        ELSE
            LET both == DOMAIN template.m \cap DOMAIN existing.m
                sub == [key \in both |->
                           compare_and_update(existing.m[key], template.m[key],
                                              Append(tpath, Key(key)))]
                kept == {key \in both : NotEmptyRetained(sub[key].ret)}
                new_retained_values == [key \in kept |-> sub[key].ret]
                updated == [key \in MergedKeys(existing, template) |->
                               IF key \in both THEN sub[key].doc
                               ELSE IF key \in DOMAIN template.m
                               THEN DeepCopy(template.m[key],
                                             Append(tpath, Key(key)))
                               ELSE existing.m[key]]
            IN [doc |-> Dict(updated),
                ret |-> IF kept # {} THEN Dict(new_retained_values) ELSE Null]
    ELSE IF IsList(template) THEN
        IF ~IsList(existing)
        THEN [doc |-> DeepCopy(template, tpath), ret |-> EmptyList]
        ELSE
            LET le == Len(existing.e)
                lt == Len(template.e)
                min_length == IF le < lt THEN le ELSE lt
                sub == [i \in 1..min_length |->
                           compare_and_update(existing.e[i], template.e[i],
                                              Append(tpath, Idx(i - 1)))]
                new_retained_values ==
                    RetainedList([i \in 1..min_length |-> sub[i].ret],
                                 IF le > lt THEN SubSeq(existing.e, lt + 1, le)
                                 ELSE <<>>)
                in_place == [i \in 1..le |->
                                IF i <= min_length THEN sub[i].doc
                                ELSE existing.e[i]]
                start == TailStart(existing)
                extension ==
                    IF le < lt
                    THEN [j \in 1..(lt - start) |->
                             DeepCopy(template.e[start + j],
                                      Append(tpath, Idx(start + j - 1)))]
                    ELSE <<>>
                updated == in_place \o extension
            IN [doc |-> List(updated),
                ret |-> IF new_retained_values # <<>>
                        THEN List(new_retained_values) ELSE Null]
    ELSE IF KeepsExisting(existing, template)
         THEN [doc |-> existing, ret |-> existing]
         ELSE [doc |-> template, ret |-> Null]

(***************************************************************************)
(* The documents the model draws its inputs from.                          *)
(***************************************************************************)
GenKeys == {"a", "b"}
\* scalars of the instances: no value, the template's string, another string,
\* and a float equal in value to the template's integer
InstanceScalars == {Null, StrV("x"), StrV("y"), FloatV(1)}
TemplateScalars == {StrV("x"), IntV(1)}

RECURSIVE DocsOfSize(_, _), ListsOfSize(_, _, _), DictsOfSize(_, _, _)
\* the sequences of len documents with n nodes in all
ListsOfSize(n, len, S) ==
    IF len = 0 THEN (IF n = 0 THEN {<<>>} ELSE {})
    ELSE UNION {{<<d>> \o rest : d \in DocsOfSize(j, S),
                                 rest \in ListsOfSize(n - j, len - 1, S)} :
                j \in 1..(n - len + 1)}
\* the functions from K to documents with n nodes in all
DictsOfSize(n, K, S) ==
    IF K = {} THEN (IF n = 0 THEN {<<>>} ELSE {})
    ELSE LET key == CHOOSE key \in K : TRUE
         IN UNION {{(key :> d) @@ rest : d \in DocsOfSize(j, S),
                        rest \in DictsOfSize(n - j, K \ {key}, S)} :
                   j \in 1..(n - Cardinality(K) + 1)}
\* the documents of exactly n nodes over the scalars S
DocsOfSize(n, S) ==
    IF n <= 0 THEN {}
    ELSE IF n = 1 THEN S \cup {EmptyDict, EmptyList}
    ELSE {Dict(m) : m \in UNION {DictsOfSize(n - 1, K, S) :
                                    K \in SUBSET GenKeys \ {{}}}}
         \cup {List(e) : e \in UNION {ListsOfSize(n - 1, len, S) :
                                         len \in 1..(n - 1)}}

DocsUpTo(n, S) == UNION {DocsOfSize(j, S) : j \in 1..n}

\* the scenarios of the merger's contract, as <<instance, template>>
ScenarioPairs ==
    { <<Dict("a" :> IntV(1) @@ "b" :> Dict("c" :> StrV("y"))),
        Dict("a" :> IntV(1) @@ "b" :> Dict("c" :> StrV("x")))>>,
      <<Dict("a" :> IntV(1) @@ "b" :> Dict("c" :> StrV("x"))),
        Dict("a" :> IntV(1) @@ "b" :> Dict("c" :> StrV("x")) @@ "d" :> StrV("z"))>>,
      <<List(<<IntV(1), IntV(2), IntV(3)>>), List(<<IntV(0), IntV(0)>>)>>,
      <<Dict("a" :> BoolV(1) @@ "b" :> StrV("x")),
        Dict("a" :> IntV(1) @@ "b" :> Null)>>,
      <<List(<<StrV("x"), StrV("y")>>), List(<<StrV("x"), StrV("x")>>)>>,
      <<Dict("a" :> List(<<Null, StrV("y")>>) @@ "b" :> StrV("y")),
        Dict("a" :> List(<<StrV("x"), IntV(1)>>) @@ "b" :> StrV("x"))>> }

\* <<instance, template>>: every pair of MaxNodes nodes or fewer
InputPairs ==
    UNION {DocsOfSize(n, InstanceScalars) \X DocsUpTo(MaxNodes - n, TemplateScalars) :
           n \in 1..(MaxNodes - 1)}
    \cup ScenarioPairs

(***************************************************************************)
(* State.                                                                  *)
(***************************************************************************)
VARIABLES
    template_file,     \* the template document on disk
    existing_file,     \* the instance document on disk (Null: an empty file)
    original_file,     \* the instance document on disk when the run started
    template,          \* the template in memory
    existing,          \* the instance in memory, updated in place
    retained_values,   \* the retained values the last merge returned
    filtered_existing, \* sync: the merged document without the pointer keys
    previous,          \* the result of the merge before the last one
    modified,          \* the slot written by a later modification
    path,              \* navigator: the shared path list
    attempts,          \* navigator: the attempt counter of each open frame
    updated_data,      \* navigator: what the root call returned
    outcome,           \* navigator: how the root call came to return
    report,            \* sync: what the customization report shows
    config_data,       \* setup: the configuration in memory
    available_models,  \* setup: provider -> usable model identifiers
    available_api_infos, \* setup: provider -> pointer fields of the provider
    selection,         \* setup: what choose_model returned
    active_model_flag, \* setup: the active pointer is to be chosen again
    checked,           \* setup: the last call of check_application_model_info
    entry,             \* what was typed at the last prompt
    edited,            \* navigator: the document with every edit applied by value
    pc                 \* control location

\* setup_config has not started
SetupIdle ==
    /\ config_data = Null
    /\ available_models = Null
    /\ available_api_infos = Null
    /\ selection = Null
    /\ active_model_flag = FALSE
    /\ checked = Null
    /\ entry = Null

choiceVars == <<config_data, available_models, available_api_infos, selection,
                active_model_flag, checked>>
docVars == <<template_file, existing_file, original_file, template, existing>>
navVars == <<path, attempts, updated_data, outcome, edited>>
setupVars == <<config_data, available_models, available_api_infos, selection,
               active_model_flag, checked, entry>>
vars == <<template_file, existing_file, original_file, template, existing,
          retained_values, filtered_existing, previous, modified, path,
          attempts, updated_data, outcome, report, config_data,
          available_models, available_api_infos, selection,
          active_model_flag, checked, entry, edited, pc>>

(***************************************************************************)
(* compare_and_update called on documents just loaded, called again on     *)
(* its own result, and its result modified afterwards.                     *)
(***************************************************************************)
\* a value no input document holds
Marker == StrV("w")

Init ==
    /\ \E pair \in InputPairs :
          /\ existing_file = pair[1]
          /\ template_file = pair[2]
    /\ original_file = existing_file
    /\ template = template_file
    /\ existing = existing_file
    /\ retained_values = Null
    /\ filtered_existing = Null
    /\ previous = Null
    /\ modified = <<>>
    /\ path = <<>>
    /\ attempts = <<0>>
    /\ updated_data = Null
    /\ outcome = "none"
    /\ report = Null
    /\ edited = Null
    /\ SetupIdle
    /\ pc = "loaded"

\* updated_existing, retained_values = compare_and_update(existing, template)
\* When existing is the template object itself, the in-place updates land in
\* the template and the object returned is that same object.
Merge ==
    /\ pc \in {"loaded", "merged"}
    /\ ~HasRef(existing) \/ existing = Ref(<<>>)
    /\ LET r == compare_and_update(Deref(existing, template), template, <<>>)
           inplace == IsRef(existing) /\ ~IsScalar(template)
       IN /\ existing' = IF inplace THEN existing ELSE r.doc
          /\ template' = IF inplace THEN r.doc ELSE template
          /\ retained_values' = r.ret
    /\ previous' = IF pc = "merged"
                   THEN [doc |-> existing, ret |-> retained_values]
                   ELSE previous
    /\ pc' = IF pc = "loaded" THEN "merged" ELSE "remerged"
    /\ UNCHANGED <<template_file, existing_file, original_file,
                   filtered_existing, modified, navVars, setupVars, report>>

\* a later assignment into the merged document: container[slot] = Marker
Modify ==
    /\ pc = "merged"
    /\ \E q \in Slots(existing, template) :
          LET r == Assign(existing, template, q, Marker)
          IN /\ existing' = r.doc
             /\ template' = r.tmpl
             /\ modified' = q
    /\ pc' = "modified"
    /\ UNCHANGED <<template_file, existing_file, original_file,
                   retained_values, filtered_existing, previous, navVars, setupVars, report>>

Next == Merge \/ Modify

Spec == Init /\ [][Next]_vars

(***************************************************************************)
(* Claims about the merger.  In a state with pc = "merged", existing_file  *)
(* is the instance I and template_file the template T as passed to         *)
(* compare_and_update, existing is the merged document and retained_values *)
(* the retained values returned.                                           *)
(***************************************************************************)
\* the positions that are a scalar in both documents, reached through keys
\* and indices present in both
RECURSIVE CommonLeaves(_, _)
CommonLeaves(i, t) ==
    IF IsScalar(i) /\ IsScalar(t) THEN {<<>>}
    ELSE IF IsDict(i) /\ IsDict(t) THEN
        UNION {{<<Key(key)>> \o q : q \in CommonLeaves(i.m[key], t.m[key])} :
               key \in DOMAIN i.m \cap DOMAIN t.m}
    ELSE IF IsList(i) /\ IsList(t) THEN
        UNION {{<<Idx(j - 1)>> \o q : q \in CommonLeaves(i.e[j], t.e[j])} :
               j \in 1..(IF Len(i.e) < Len(t.e) THEN Len(i.e) ELSE Len(t.e))}
    ELSE {}

\* is path a position of document d
RECURSIVE HasPath(_, _)
HasPath(d, pth) ==
    \/ pth = <<>>
    \/ /\ HasChild(d, Head(pth))
       /\ HasPath(Child(d, Head(pth)), Tail(pth))

\* retained holds value v under the keys of pth; inside a sequence the entry
\* is at the index of the pth or before it (the entries are listed without
\* gaps)
RECURSIVE RetainedHolds(_, _, _)
RetainedHolds(r, pth, v) ==
    IF pth = <<>> THEN r = v
    ELSE IF DOMAIN Head(pth) = {"key"} THEN
        /\ IsDict(r)
        /\ Head(pth).key \in DOMAIN r.m
        /\ RetainedHolds(r.m[Head(pth).key], Tail(pth), v)
    ELSE
        /\ IsList(r)
        /\ \E j \in 1..Len(r.e) :
              /\ j <= Head(pth).idx + 1
              /\ RetainedHolds(r.e[j], Tail(pth), v)

\* C1 as stated: at every leaf where I's value differs from T's, the merged
\* document holds I's value and the retained values have an entry for that
\* position (under the same keys; inside a sequence, at the same index or an
\* earlier one).
C1_PreservesEveryDifference ==
    pc = "merged" =>
        \A q \in CommonLeaves(existing_file, template_file) :
            At(existing_file, q) # At(template_file, q) =>
                /\ At(existing, q) = At(existing_file, q)
                /\ RetainedHolds(retained_values, q, At(existing_file, q))

\* C1 as amended: at every leaf where I's value is not null and is not equal
\* to T's under Python's ==, the merged document holds I's value and the
\* retained values hold it under the same keys (inside a sequence, at the
\* same index or an earlier one).
C1_PreservesCustomization ==
    pc = "merged" =>
        \A q \in CommonLeaves(existing_file, template_file) :
            (/\ At(existing_file, q) # Null
             /\ ~PyEq(At(existing_file, q), At(template_file, q))) =>
                /\ At(existing, q) = At(existing_file, q)
                /\ RetainedHolds(retained_values, q, At(existing_file, q))

\* a merge in which a nested leaf that differs from the template was kept
C1_Witness ==
    /\ pc = "merged"
    /\ \E q \in CommonLeaves(existing_file, template_file) :
          /\ Len(q) >= 1
          /\ At(existing_file, q) # Null
          /\ ~PyEq(At(existing_file, q), At(template_file, q))
          /\ At(existing, q) = At(existing_file, q)
    /\ \E q \in CommonLeaves(existing_file, template_file) :
          At(existing_file, q) = Null /\ At(existing, q) = At(template_file, q)

\* the positions of d that hold a mapping, the root included
RECURSIVE Positions(_)
Positions(d) ==
    {<<>>} \cup
    (IF IsDict(d) THEN
         UNION {{<<Key(key)>> \o q : q \in Positions(d.m[key])} :
                key \in DOMAIN d.m}
     ELSE IF IsList(d) THEN
         UNION {{<<Idx(j - 1)>> \o q : q \in Positions(d.e[j])} :
                j \in 1..Len(d.e)}
     ELSE {})

\* C2: after the merge every mapping of the merged document has exactly the
\* keys of the mapping of T at the same position (keys of the instance that
\* the template lacks are dropped).
C2_MappingKeysEqualTemplate ==
    pc = "merged" =>
        \A q \in Positions(existing) :
            (/\ IsDict(At(existing, q))
             /\ HasPath(template_file, q)
             /\ IsDict(At(template_file, q))) =>
                DOMAIN At(existing, q).m = DOMAIN At(template_file, q).m

\* t with every entry of the retained values r written at the position the
\* entry has in r
RECURSIVE Replay(_, _)
Replay(t, r) ==
    IF IsDict(r) /\ IsDict(t) THEN
        Dict([key \in DOMAIN t.m \cup DOMAIN r.m |->
                 IF key \notin DOMAIN r.m THEN t.m[key]
                 ELSE IF key \notin DOMAIN t.m THEN r.m[key]
                 ELSE Replay(t.m[key], r.m[key])])
    ELSE IF IsList(r) /\ IsList(t) THEN
        List([j \in 1..(IF Len(t.e) > Len(r.e) THEN Len(t.e) ELSE Len(r.e)) |->
                 IF j > Len(r.e) THEN t.e[j]
                 ELSE IF j > Len(t.e) THEN r.e[j]
                 ELSE Replay(t.e[j], r.e[j])])
    ELSE IF r = Null THEN t
    ELSE r

\* C3: writing the retained values onto a copy of T, each entry at the
\* position it has in the retained values, gives I's value at every leaf
\* where I diverged from T (a value that is not null and not equal to T's);
\* and a mapping of I whose leaves all equal T's has no entry.
C3_ReplayReproducesInstance ==
    pc = "merged" =>
        /\ \A q \in CommonLeaves(existing_file, template_file) :
              (/\ At(existing_file, q) # Null
               /\ ~PyEq(At(existing_file, q), At(template_file, q))) =>
                  /\ HasPath(Replay(template_file, retained_values), q)
                  /\ At(Replay(template_file, retained_values), q)
                         = At(existing_file, q)
        /\ existing_file = template_file => retained_values = Null

\* C4: merging the merged document with the same template again changes
\* nothing: the document returned equals the first result, and the retained
\* values equal the first ones or are empty.
C4_Idempotent ==
    pc = "remerged" =>
        /\ Deref(existing, template) = previous.doc
        /\ \/ retained_values = previous.ret
           \/ ~NotEmptyRetained(retained_values)

\* a second merge after a first one that extended a sequence, added a key and
\* retained something
C4_Witness ==
    /\ pc = "remerged"
    /\ previous.doc # existing_file
    /\ NotEmptyRetained(previous.ret)
    /\ retained_values = previous.ret

Max(a, b) == IF a > b THEN a ELSE b
Min(a, b) == IF a < b THEN a ELSE b

\* C5: for sequences I and T the merged sequence has length
\* max(len(I), len(T)); the positions below min(len(I), len(T)) hold the
\* merge of the two elements; the extra trailing elements of a longer I stay
\* unchanged and each of them is an entry of the retained output; the
\* trailing elements a longer T adds equal T's.  I = [1,2,3], T = [0,0] keeps
\* [1,2,3] and retains 3.
C5_SequenceCase ==
    (pc = "merged" /\ IsList(existing_file) /\ IsList(template_file)) =>
        LET ie == existing_file.e
            te == template_file.e
        IN /\ IsList(existing)
           /\ Len(existing.e) = Max(Len(ie), Len(te))
           /\ \A j \in 1..Min(Len(ie), Len(te)) :
                 existing.e[j] =
                     compare_and_update(ie[j], te[j], <<Idx(j - 1)>>).doc
           /\ \A j \in (Len(te) + 1)..Len(ie) :
                 /\ existing.e[j] = ie[j]
                 /\ IsList(retained_values)
                 /\ \E n \in 1..Len(retained_values.e) :
                       retained_values.e[n] = ie[j]
           /\ \A j \in (Len(ie) + 1)..Len(te) : existing.e[j] = te[j]
           /\ (ie = <<IntV(1), IntV(2), IntV(3)>> /\ te = <<IntV(0), IntV(0)>>) =>
                 /\ existing.e = ie
                 /\ \E n \in 1..Len(retained_values.e) :
                       retained_values.e[n] = IntV(3)

\* merges of two sequences: one with a longer instance, with the contract's
\* scenario among them, and one with a longer template
C5_Witness ==
    /\ pc = "merged"
    /\ existing_file = List(<<IntV(1), IntV(2), IntV(3)>>)
    /\ template_file = List(<<IntV(0), IntV(0)>>)
    /\ existing = existing_file

C5_WitnessLongerTemplate ==
    /\ pc = "merged"
    /\ IsList(existing_file) /\ IsList(template_file)
    /\ 0 < Len(existing_file.e)
    /\ Len(existing_file.e) < Len(template_file.e)

\* C6: a key of the template mapping that the instance mapping lacks is
\* inserted with the template's value and has no entry in the retained
\* values.  T = {a: 1, b: {c: "x"}, d: "z"}, I = {a: 1, b: {c: "x"}} adds
\* d: "z" and retains nothing; T = {a: 1, b: {c: "x"}}, I = {a: 1, b: {c: "y"}}
\* retains {b: {c: "y"}} and leaves the merged document equal to I.
C6_StructuralAddition ==
    (pc = "merged" /\ IsDict(existing_file) /\ IsDict(template_file)) =>
        /\ IsDict(existing)
        /\ \A key \in DOMAIN template_file.m \ DOMAIN existing_file.m :
              /\ key \in DOMAIN existing.m
              /\ Deref(existing.m[key], template) = template_file.m[key]
              /\ IsDict(retained_values) => key \notin DOMAIN retained_values.m
        /\ (/\ template_file = Dict("a" :> IntV(1) @@ "b" :> Dict("c" :> StrV("x"))
                                    @@ "d" :> StrV("z"))
            /\ existing_file = Dict("a" :> IntV(1) @@ "b" :> Dict("c" :> StrV("x")))) =>
              /\ existing = template_file
              /\ retained_values = Null
        /\ (/\ template_file = Dict("a" :> IntV(1) @@ "b" :> Dict("c" :> StrV("x")))
            /\ existing_file = Dict("a" :> IntV(1) @@ "b" :> Dict("c" :> StrV("y")))) =>
              /\ existing = existing_file
              /\ retained_values = Dict("b" :> Dict("c" :> StrV("y")))

\* the merge that adds d: "z"
C6_Witness ==
    /\ pc = "merged"
    /\ existing_file = Dict("a" :> IntV(1) @@ "b" :> Dict("c" :> StrV("x")))
    /\ "d" \in DOMAIN template_file.m
    /\ existing.m["d"] = StrV("z")

\* C7: the merger does not modify the template, and a later modification of
\* the merged document, also of a part filled in from the template, does not
\* change the template either.
C7_TemplateUntouched == template = template_file

\* a slot inside a container that the merge filled in from the template has
\* been written, and the template is as it was
C7_Witness ==
    /\ pc = "modified"
    /\ Len(modified) = 2
    /\ IsDict(template_file) /\ IsDict(existing_file)
    /\ Head(modified).key \in DOMAIN template_file.m \ DOMAIN existing_file.m
    /\ At(Deref(existing, template), modified) = Marker
    /\ template = template_file

(***************************************************************************)
(* The document store: load_yaml and save_yaml.                            *)
(***************************************************************************)
\* the content of a file yaml.safe_load cannot parse
Malformed == [k |-> "malformed"]

\* a failing load is not noticed
LoadFails_Never(file) == FALSE
\* load_yaml(file_path) raises: yaml.safe_load cannot parse the content
LoadFails(file) == file = Malformed

\* yaml.safe_dump followed by yaml.safe_load: the file holds values, an
\* object shared with the template is written out by value
Dumped(data, tmpl) == Deref(data, tmpl)

(***************************************************************************)
(* sync_yaml_with_template(template_file, existing_file), one step per     *)
(* statement that reads or writes a file.                                  *)
(***************************************************************************)
excluded_keys == {"active_model", "mesh_query_model"}

\* {k: v for k, v in updated_existing.items() if k not in excluded_keys}
Filtered(updated_existing) ==
    Dict([key \in DOMAIN updated_existing.m \ excluded_keys |->
             updated_existing.m[key]])

\* the filtered document is saved instead of the merged one
SavedConfig_Filtered(updated_existing, filtered) == filtered
\* the document passed to save_yaml(existing_file, updated_existing)
SavedConfig(updated_existing, filtered) == updated_existing

PointerUnset == Dict("provider" :> StrV("your_provider"))
PointerSet == Dict("provider" :> StrV("p1"))

SyncTemplates ==
    { Dict("active_model" :> PointerUnset @@ "mesh_query_model" :> PointerUnset
           @@ "a" :> StrV("x")),
      Dict("active_model" :> PointerUnset @@ "mesh_query_model" :> PointerUnset
           @@ "a" :> StrV("x") @@ "b" :> List(<<IntV(1)>>)) }

\* the values an instance file may hold under each key
SyncValues(key) ==
    IF key \in excluded_keys THEN {PointerUnset, PointerSet}
    ELSE IF key = "a" THEN {StrV("x"), StrV("y")}
    ELSE {List(<<IntV(1), IntV(2)>>)}

SyncInstances ==
    {Dict(m) : m \in UNION {{f \in [K -> UNION {SyncValues(key) : key \in K}] :
                                \A key \in K : f[key] \in SyncValues(key)} :
                            K \in SUBSET (excluded_keys \cup {"a", "b"})}}
    \cup {Null, Malformed}

SyncInit ==
    /\ template_file \in SyncTemplates \cup {Malformed}
    /\ existing_file \in SyncInstances
    /\ original_file = existing_file
    /\ template = Null
    /\ existing = Null
    /\ retained_values = Null
    /\ filtered_existing = Null
    /\ previous = Null
    /\ modified = <<>>
    /\ path = <<>>
    /\ attempts = <<0>>
    /\ updated_data = Null
    /\ outcome = "none"
    /\ report = Null
    /\ edited = Null
    /\ SetupIdle
    /\ pc = "sync_start"

\* template = load_yaml(template_file)
SyncLoadTemplate ==
    /\ pc = "sync_start"
    /\ IF LoadFails(template_file)
       THEN pc' = "raised" /\ UNCHANGED template
       ELSE pc' = "sync_template" /\ template' = template_file
    /\ UNCHANGED <<template_file, existing_file, original_file, existing,
                   retained_values, filtered_existing, previous, modified, navVars, setupVars, report>>

\* existing = load_yaml(existing_file)
SyncLoadExisting ==
    /\ pc = "sync_template"
    /\ IF LoadFails(existing_file)
       THEN pc' = "raised" /\ UNCHANGED existing
       ELSE pc' = "sync_loaded" /\ existing' = existing_file
    /\ UNCHANGED <<template_file, existing_file, original_file, template,
                   retained_values, filtered_existing, previous, modified, navVars, setupVars, report>>

\* updated_existing, retained_values = compare_and_update(existing, template)
\* and the filtered copy; updated_existing.items() raises when the merged
\* document is no mapping
SyncMerge ==
    /\ pc = "sync_loaded"
    /\ LET r == compare_and_update(existing, template, <<>>)
       IN /\ existing' = r.doc
          /\ retained_values' = r.ret
          /\ IF IsDict(r.doc)
             THEN pc' = "sync_merged" /\ filtered_existing' = Filtered(r.doc)
             ELSE pc' = "raised" /\ UNCHANGED filtered_existing
    /\ UNCHANGED <<template_file, existing_file, original_file, template,
                   previous, modified, navVars, setupVars, report>>

\* open(existing_file, "w"): the file is truncated
SyncOpenFiltered ==
    /\ pc = "sync_merged"
    /\ existing_file' = Null
    /\ pc' = "sync_open_filtered"
    /\ UNCHANGED <<template_file, original_file, template, existing,
                   retained_values, filtered_existing, previous, modified, navVars, setupVars, report>>

\* yaml.safe_dump(filtered_existing, file), and the file is closed
SyncDumpFiltered ==
    /\ pc = "sync_open_filtered"
    /\ existing_file' = Dumped(filtered_existing, template)
    /\ pc' = "sync_filtered"
    /\ UNCHANGED <<template_file, original_file, template, existing,
                   retained_values, filtered_existing, previous, modified, navVars, setupVars, report>>

\* save_yaml: open(config_file, 'w') truncates the file again
SyncOpenSave ==
    /\ pc = "sync_filtered"
    /\ existing_file' = Null
    /\ pc' = "sync_open_save"
    /\ UNCHANGED <<template_file, original_file, template, existing,
                   retained_values, filtered_existing, previous, modified, navVars, setupVars, report>>

\* save_yaml: yaml.safe_dump(config_data, file), and the file is closed
SyncDumpSave ==
    /\ pc = "sync_open_save"
    /\ existing_file' = Dumped(SavedConfig(existing, filtered_existing), template)
    /\ pc' = "sync_saved"
    /\ UNCHANGED <<template_file, original_file, template, existing,
                   retained_values, filtered_existing, previous, modified, navVars, setupVars, report>>

\* the message shown when no customization is detected
NoCustomizations == [k |-> "message"]

\* what lines 418-422 print for the retained values of the merge
Report(retained) ==
    IF NotEmptyRetained(retained) THEN retained ELSE NoCustomizations

\* the report is printed and updated_existing returned
SyncReturn ==
    /\ pc = "sync_saved"
    /\ report' = Report(retained_values)
    /\ pc' = "sync_returned"
    /\ UNCHANGED <<template_file, existing_file, original_file, template,
                   existing, retained_values, filtered_existing, previous,
                   modified, navVars, setupVars>>

SyncRunning ==
    pc \in {"sync_start", "sync_template", "sync_loaded", "sync_merged",
            "sync_open_filtered", "sync_filtered", "sync_open_save",
            "sync_saved"}

\* the process is stopped between two steps
SyncInterrupt ==
    /\ SyncRunning
    /\ pc' = "interrupted"
    /\ UNCHANGED <<template_file, existing_file, original_file, template,
                   existing, retained_values, filtered_existing, previous,
                   modified, navVars, setupVars, report>>

SyncNext ==
    \/ SyncLoadTemplate
    \/ SyncLoadExisting
    \/ SyncMerge
    \/ SyncOpenFiltered
    \/ SyncDumpFiltered
    \/ SyncOpenSave
    \/ SyncDumpSave
    \/ SyncReturn
    \/ SyncInterrupt

SpecSync == SyncInit /\ [][SyncNext]_vars

\* C9: when sync_yaml_with_template returns, the file holds the merged
\* document the merger returned, pointer entries included, whether or not
\* anything was retained.
C9_FileHoldsMerged ==
    pc = "sync_returned" =>
        /\ existing_file = Deref(existing, template)
        /\ existing_file = compare_and_update(original_file, template_file, <<>>).doc
        /\ excluded_keys \subseteq DOMAIN existing_file.m

\* a sync that retained a customised pointer returned
C9_Witness ==
    /\ pc = "sync_returned"
    /\ existing_file.m["active_model"] = PointerSet
    /\ NotEmptyRetained(retained_values)

\* a sync that retained nothing returned
C9_WitnessNothingRetained ==
    /\ pc = "sync_returned"
    /\ ~NotEmptyRetained(retained_values)
    /\ existing_file # original_file

\* C10: at every point of sync_yaml_with_template, so wherever it is
\* interrupted, the file holds the document it held before the sync or the
\* complete merged document, and never a document without the active_model
\* or mesh_query_model entries.
C10_FileOldOrMerged ==
    \/ existing_file = original_file
    \/ /\ pc \in {"sync_saved", "sync_returned", "interrupted"}
       /\ existing_file = Dumped(existing, template)
       /\ excluded_keys \subseteq DOMAIN existing_file.m

\* the retained values without the pointer entries
NonIdentity(retained) ==
    IF IsDict(retained)
    THEN Dict([key \in DOMAIN retained.m \ excluded_keys |-> retained.m[key]])
    ELSE retained

\* C11: the customization report of sync_yaml_with_template never has an
\* entry for active_model or mesh_query_model: it shows the retained values
\* restricted to the other fields, and is the "no customizations detected"
\* message exactly when that restricted map is empty.
C11_ReportOmitsPointers ==
    pc = "sync_returned" => report = Report(NonIdentity(retained_values))

\* C12: when the load of the template or of the instance fails, the sync
\* stops there and the instance file is unchanged; the file is only ever
\* written after both loads have succeeded.
C12_NoWriteAfterFailedLoad ==
    /\ (template_file = Malformed \/ original_file = Malformed) =>
          /\ existing_file = original_file
          /\ pc \in {"sync_start", "sync_template", "raised", "interrupted"}
    /\ existing_file # original_file =>
          /\ template = template_file
          /\ existing # Null

\* the template was loaded, the load of the instance failed
C12_Witness ==
    /\ pc = "raised"
    /\ template_file # Malformed
    /\ template = template_file
    /\ existing_file = Malformed

\* the load of the template failed
C12_WitnessTemplate ==
    /\ pc = "raised"
    /\ template_file = Malformed
    /\ existing_file = original_file

(***************************************************************************)
(* The navigator: update_yaml_interactively and get_user_choice, as called *)
(* by edit_old_config on the synchronised file.  One step per prompt.  The *)
(* open frames are the prefixes of path: the frame at a path works on the  *)
(* object of the document at that path and on the template's object at the *)
(* same path.  A value returned by a frame is a document; the signals      *)
(* "back", "quit" and "quit_all" are the strings of that name.             *)
(***************************************************************************)
MaxAttempts == 5

\* the sentinels of the template
your_api_key_here == StrV("your_api_key_here")
default_endpoint == StrV("https://default_endpoint.com")
No_default_model == StrV("No_default_model")
your_provider == StrV("your_provider")

\* Python's truth value of a document
Truthy(v) ==
    /\ v \notin {Null, StrV(""), EmptyDict, EmptyList}
    /\ IsNumber(v) => v.n # 0

Front(sq) == SubSeq(sq, 1, Len(sq) - 1)

\* the keys routed to the dedicated editors other than input_username; the
\* documents of the navigator's runs hold none of them
DedicatedKeys ==
    {"email", "endpoint", "api_key", "max_tokens", "temperature", "top_p"}

\* the keys matching ^model_[1-5]$
ModelSlotKeys == {"model_1", "model_2", "model_3", "model_4", "model_5"}

\* data of the frame at path p
NodeAt(p) == At(Deref(existing, template), p)

\* the counter of the innermost frame, and the stack with it set to n
Attempt == attempts[Len(attempts)]
WithAttempt(n) == [attempts EXCEPT ![Len(attempts)] = n]

\* the stack when the innermost frame has returned: a mapping frame calls
\* get_user_choice anew, a sequence frame goes on with its counter
Resumed ==
    LET f == Front(attempts)
    IN IF IsList(NodeAt(Front(path))) THEN f ELSE [f EXCEPT ![Len(f)] = 0]

\* `return template`: the template argument of the frame at path p, which is
\* the template's own object
TemplateObject(p) ==
    IF IsScalar(At(template, p)) THEN At(template, p) ELSE Ref(p)

\* the texts typed at the prompt for a new value
TypedInputs ==
    {"", "z", "0", "2", "back", "quit", "quit_all", "No_default_model",
     "m1", "m9"}

\* int(new_value) and float(new_value): the number typed, Null for ValueError
Digits == {"0", "2"}
NumberTyped(typed) == IF typed = "0" THEN 0 ELSE 2
Coerced(t, typed) ==
    IF t.k \in {"int", "bool"}
    THEN (IF typed \in Digits THEN IntV(NumberTyped(typed)) ELSE Null)
    ELSE IF t.k = "float"
    THEN (IF typed \in Digits THEN FloatV(NumberTyped(typed)) ELSE Null)
    ELSE StrV(typed)

\* what the prompt for a new value makes of the typed text, given the
\* template's value t; Null when int()/float() raises or `if new_value:`
\* fails
NewValue(t, typed) ==
    LET new_value == Coerced(t, typed)
    IN IF new_value # Null /\ Truthy(new_value) THEN new_value ELSE Null

\* the frame at path p was entered with model=path[-3]
IsModelFrame(p) ==
    /\ Len(p) >= 3
    /\ DOMAIN p[Len(p)] = {"key"}
    /\ p[Len(p)].key \in ModelSlotKeys
ModelOf(p) == p[Len(p) - 2]

\* `if model:`
SegTruthy(seg) == IF DOMAIN seg = {"key"} THEN seg.key # "" ELSE seg.idx # 0

\* config_data["api"][model]["models"]
ModelTable(model) == <<Key("api"), model, Key("models")>>

\* new_value in config_data["api"][model]["models"].values()
StoredModel(models, slot, new_value) ==
    \E name \in DOMAIN models.m : PyEq(models.m[name], new_value)

\* one pass of the loop of lines 806-834 on the typed text: the value is
\* returned ("store"), the attempt is counted ("reject"), or the lookup of
\* the provider's models raises ("raise")
NewValueStep(p, typed) ==
    LET new_value == NewValue(At(template, p), typed)
        config_data_ == Deref(existing, template)
    IN IF new_value = Null THEN [kind |-> "reject", value |-> Null]
       ELSE IF ~(IsModelFrame(p) /\ SegTruthy(ModelOf(p)))
       THEN [kind |-> "store", value |-> new_value]
       ELSE IF new_value = No_default_model
       THEN [kind |-> "reject", value |-> Null]
       ELSE IF ~ /\ HasPath(config_data_, ModelTable(ModelOf(p)))
                 /\ IsDict(At(config_data_, ModelTable(ModelOf(p))))
       THEN [kind |-> "raise", value |-> Null]
       ELSE IF StoredModel(At(config_data_, ModelTable(ModelOf(p))),
                           p[Len(p)].key, new_value)
       THEN [kind |-> "reject", value |-> Null]
       ELSE [kind |-> "store", value |-> new_value]

\* the texts tried at the prompt of the frame at path p
TypedAt(p) ==
    IF IsModelFrame(p)
    THEN {"", "No_default_model", "m1", "m9", "quit"}
    ELSE IF At(template, p).k \in {"int", "bool", "float"}
    THEN {"", "z", "0", "2"}
    ELSE {"", "z", "2", "back", "quit", "quit_all"}

\* the innermost frame returns result (lines 715-730 and 752-766 of the
\* caller; the root call returns to edit_old_config)
\* the root frame hands on the signal
QuitAllResult_Signal(data) == StrV("quit_all")
\* lines 721-726: the frame that empties the path returns data
QuitAllResult(data) == data

FrameReturns(result, why) ==
    IF path = <<>> THEN
        /\ updated_data' = result
        /\ outcome' = why
        /\ pc' = "returned"
        /\ UNCHANGED <<edited, existing, template, path, attempts>>
    ELSE IF result = StrV("back") THEN
        /\ path' = Front(path)
        /\ attempts' = Resumed
        /\ pc' = "browse"
        /\ UNCHANGED <<edited, existing, template, updated_data, outcome>>
    ELSE IF result = StrV("quit") THEN
        \* every caller returns "quit" in turn, none pops the path
        /\ updated_data' = StrV("quit")
        /\ outcome' = why
        /\ attempts' = <<0>>
        /\ pc' = "returned"
        /\ UNCHANGED <<edited, existing, template, path>>
    ELSE IF result = StrV("quit_all") THEN
        \* every caller pops the path; the one that empties it returns data
        /\ updated_data' = QuitAllResult(existing)
        /\ outcome' = why
        /\ path' = <<>>
        /\ attempts' = <<0>>
        /\ pc' = "returned"
        /\ UNCHANGED <<edited, existing, template>>
    ELSE
        \* path.pop(); data[choice] = result
        LET r == Assign(existing, template, path, result)
        IN /\ existing' = r.doc
           /\ template' = r.tmpl
           /\ path' = Front(path)
           /\ attempts' = Resumed
           /\ pc' = "browse"
           /\ edited' = SetAt(edited, path, Deref(result, template))
           /\ UNCHANGED <<updated_data, outcome>>

\* the innermost frame returns its own data: the caller stores the object
\* where it already is
FrameReturnsData(why) ==
    IF path = <<>> THEN
        /\ updated_data' = existing
        /\ outcome' = why
        /\ pc' = "returned"
        /\ UNCHANGED <<edited, existing, template, path, attempts>>
    ELSE
        /\ path' = Front(path)
        /\ attempts' = Resumed
        /\ pc' = "browse"
        /\ UNCHANGED <<edited, existing, template, updated_data, outcome>>

\* the stack when the innermost frame calls a child: the counter of a
\* mapping frame ended with its get_user_choice, the counter of a sequence
\* frame lives on
Called ==
    Append(IF IsDict(NodeAt(path)) THEN WithAttempt(0) ELSE attempts, 0)

\* update_yaml_interactively(data[seg], template[seg], ...) is entered
EnterChild(seg) ==
    /\ path' = Append(path, seg)
    /\ attempts' = Called
    /\ pc' = IF IsScalar(Child(NodeAt(path), seg)) THEN "leaf" ELSE "browse"
    /\ UNCHANGED <<edited, existing, template, updated_data, outcome>>

\* template[seg] raises KeyError, IndexError or TypeError
Raises ==
    /\ pc' = "raised"
    /\ UNCHANGED <<edited, existing, template, path, attempts, updated_data, outcome>>

syncVars == <<template_file, existing_file, original_file, retained_values,
              filtered_existing, previous, modified>>

\* the instances and templates of the navigator's runs, as
\* <<instance before the sync, template>>
NavTemplate ==
    Dict("a" :> Dict("b" :> StrV("x") @@ "c" :> IntV(1))
         @@ "l" :> List(<<StrV("x")>>)
         @@ "active_model" :> PointerUnset)
\* a template and an instance with one provider's model slots, and a
\* template with two instances for the user name
NavModels(model_1, model_2) ==
    Dict("api" :> Dict("p1" :> Dict("models" :>
            Dict("model_1" :> model_1 @@ "model_2" :> model_2))))
NavUser(username) == Dict("username" :> StrV(username))
NavPairs ==
    { <<NavTemplate, NavTemplate>>,
      <<NavModels(StrV("m9"), StrV("m1")),
        NavModels(StrV("m1"), No_default_model)>>,
      <<NavUser("your_name"), NavUser("your_name")>>,
      <<NavUser("alice"), NavUser("your_name")>>,
      <<Dict("a" :> Dict("b" :> StrV("y") @@ "c" :> IntV(1))
             @@ "l" :> List(<<StrV("y"), StrV("y")>>)
             @@ "e" :> StrV("y")
             @@ "active_model" :> PointerSet),
        NavTemplate>>,
      <<Dict("a" :> StrV("y")), Dict("a" :> StrV("x") @@ "f" :> FloatV(1))>> }

\* edit_old_config: data = load_yaml(yaml_file); template = load_yaml(...)
NavInit ==
    /\ \E pair \in NavPairs :
          /\ template_file = pair[2]
          /\ existing_file = compare_and_update(pair[1], pair[2], <<>>).doc
    /\ original_file = existing_file
    /\ template = template_file
    /\ existing = existing_file
    /\ retained_values = Null
    /\ filtered_existing = Null
    /\ previous = Null
    /\ modified = <<>>
    /\ path = <<>>
    /\ attempts = <<0>>
    /\ updated_data = Null
    /\ outcome = "none"
    /\ report = Null
    /\ edited = existing_file
    /\ SetupIdle
    /\ pc = "browse"

AtDictMenu == pc = "browse" /\ IsDict(NodeAt(path))
AtListMenu == pc = "browse" /\ IsList(NodeAt(path))

\* get_user_choice: 'q'
NavQuit ==
    /\ AtDictMenu
    /\ IF path = <<>> THEN FrameReturnsData("quit_all")
       ELSE FrameReturns(StrV("quit_all"), "quit_all")
    /\ entry' = StrV("q")
    /\ UNCHANGED <<syncVars, choiceVars, report>>

\* get_user_choice: 'b' below the root
NavBack ==
    /\ AtDictMenu
    /\ path # <<>>
    /\ FrameReturns(StrV("back"), "back")
    /\ entry' = StrV("b")
    /\ UNCHANGED <<syncVars, choiceVars, report>>

\* get_user_choice: an entry that is no option ('b' at the root is one); the
\* fifth makes get_user_choice return None and the frame return data
NavInvalid ==
    /\ AtDictMenu
    /\ \E typed \in {"?"} \cup (IF path = <<>> THEN {"b"} ELSE {}) :
          entry' = StrV(typed)
    /\ IF Attempt + 1 < MaxAttempts
       THEN /\ attempts' = WithAttempt(Attempt + 1)
            /\ UNCHANGED <<edited, existing, template, path, updated_data, outcome, pc>>
       ELSE FrameReturnsData("exhausted")
    /\ UNCHANGED <<syncVars, choiceVars, report>>

\* get_user_choice: '0', the default is shown and the confirmation asked
NavAskReset ==
    /\ AtDictMenu
    /\ pc' = "confirm"
    /\ UNCHANGED <<edited, existing, template, path, attempts, updated_data, outcome>>
    /\ entry' = StrV("0")
    /\ UNCHANGED <<syncVars, choiceVars, report>>

\* get_user_choice: the answer to the confirmation.  'y' gives "reset": at
\* the root the second question follows, below it the frame returns its
\* template.  Any other answer gives "quit": the menu is shown again.
NavConfirm ==
    /\ pc = "confirm"
    /\ \E answer \in {"y", "n", "other"} :
          /\ entry' = StrV(answer)
          /\ IF answer = "y" THEN
                 IF path = <<>>
                 THEN /\ pc' = "restore_all"
                      /\ UNCHANGED <<edited, existing, template, path, attempts,
                                     updated_data, outcome>>
                 ELSE FrameReturns(TemplateObject(path), "reset")
             ELSE /\ pc' = "browse"
                  /\ attempts' = WithAttempt(0)
                  /\ UNCHANGED <<edited, existing, template, path, updated_data, outcome>>
    /\ UNCHANGED <<syncVars, choiceVars, report>>

\* the answer to "restore everything?": "yes" returns the template, "no"
\* shows the menu again, anything else returns data
NavRestoreAll ==
    /\ pc = "restore_all"
    /\ \E answer \in {"yes", "no", "other"} :
          /\ entry' = StrV(answer)
          /\ IF answer = "yes" THEN FrameReturns(TemplateObject(<<>>), "reset_all")
             ELSE IF answer = "no"
             THEN /\ pc' = "browse"
                  /\ attempts' = WithAttempt(0)
                  /\ UNCHANGED <<edited, existing, template, path, updated_data, outcome>>
             ELSE FrameReturnsData("exhausted")
    /\ UNCHANGED <<syncVars, choiceVars, report>>

\* get_user_choice: the number of a key.  The pointer keys answer "back" at
\* once; the other keys enter the child (the keys of DedicatedKeys enter
\* their editor).
NavSelectKey ==
    /\ AtDictMenu
    /\ \E choice \in DOMAIN NodeAt(path).m \ DedicatedKeys :
          /\ entry' = [k |-> "option", key |-> choice]
          /\ IF choice = "username"
             THEN IF /\ HasChild(Deref(existing, template), Key("username"))
                     /\ HasChild(template, Key("username"))
                  THEN /\ path' = Append(path, Key(choice))
                       /\ attempts' = Called
                       /\ pc' = "input_username"
                       /\ UNCHANGED <<edited, existing, template, updated_data,
                                      outcome>>
                  ELSE Raises
             ELSE IF choice \in excluded_keys
             THEN /\ attempts' = WithAttempt(0)
                  /\ UNCHANGED <<edited, existing, template, path, updated_data, outcome, pc>>
             ELSE IF ~HasChild(At(template, path), Key(choice))
             THEN Raises
             ELSE IF choice \in ModelSlotKeys /\ Len(path) + 1 < 3
             THEN Raises
             ELSE EnterChild(Key(choice))
    /\ UNCHANGED <<syncVars, choiceVars, report>>

\* the sequence menu: 'q' returns "quit_all" and 'b' returns "back", at the
\* root too; an index enters the element; anything else counts, and the
\* fifth starts the menu over
NavListChoice ==
    /\ AtListMenu
    /\ \/ \E choice \in {"q", "b", "?"} :
             /\ entry' = StrV(choice)
             /\ IF choice = "q" THEN FrameReturns(StrV("quit_all"), "quit_all")
                ELSE IF choice = "b" THEN FrameReturns(StrV("back"), "back")
                ELSE /\ attempts' = WithAttempt(IF Attempt + 1 < MaxAttempts
                                                THEN Attempt + 1 ELSE 0)
                     /\ UNCHANGED <<edited, existing, template, path, updated_data,
                                    outcome, pc>>
       \/ \E index \in 0..(Len(NodeAt(path).e) - 1) :
             /\ entry' = IntV(index + 1)
             /\ IF HasChild(At(template, path), Idx(index))
                THEN EnterChild(Idx(index))
                ELSE Raises
    /\ UNCHANGED <<syncVars, choiceVars, report>>

\* the leaf prompt: 'y' returns the template's value, 'b' returns "back",
\* 'n' asks for the new value, anything else counts and the fifth returns
\* "back"
NavLeafChoice ==
    /\ pc = "leaf"
    /\ \E answer \in {"y", "n", "b", "other"} :
          /\ entry' = StrV(answer)
          /\ IF answer = "y" THEN FrameReturns(TemplateObject(path), "default")
             ELSE IF answer = "b" THEN FrameReturns(StrV("back"), "back")
             ELSE IF answer = "n"
             THEN /\ pc' = "new_value"
                  /\ attempts' = WithAttempt(0)
                  /\ UNCHANGED <<edited, existing, template, path, updated_data, outcome>>
             ELSE IF Attempt + 1 < MaxAttempts
             THEN /\ attempts' = WithAttempt(Attempt + 1)
                  /\ UNCHANGED <<edited, existing, template, path, updated_data, outcome, pc>>
             ELSE FrameReturns(StrV("back"), "exhausted")
    /\ UNCHANGED <<syncVars, choiceVars, report>>

\* the prompt for the new value
NavNewValue ==
    /\ pc = "new_value"
    /\ \E typed \in TypedAt(path) :
          /\ entry' = StrV(typed)
          /\ LET step == NewValueStep(path, typed)
             IN IF step.kind = "store" THEN FrameReturns(step.value, "value")
                ELSE IF step.kind = "raise" THEN Raises
                ELSE IF Attempt + 1 < MaxAttempts
                THEN /\ attempts' = WithAttempt(Attempt + 1)
                     /\ UNCHANGED <<edited, existing, template, path, updated_data,
                                    outcome, pc>>
                ELSE FrameReturns(StrV("back"), "exhausted")
    /\ UNCHANGED <<syncVars, choiceVars, report>>

\* what a dedicated editor returns when its attempts are used up
EditorFailed == BoolV(0)

\* input_username: one prompt of the editor entered for the key username
NavInputUsername ==
    /\ pc = "input_username"
    /\ LET old_username == At(Deref(existing, template), <<Key("username")>>)
           default_username == At(template, <<Key("username")>>)
       IN \E username \in {"", "bob"} :
             /\ entry' = StrV(username)
             /\ IF username # ""
                THEN FrameReturns(StrV(username), "value")
                ELSE IF ~PyEq(old_username, default_username)
                THEN FrameReturns(old_username, "value")
                ELSE IF Attempt + 1 < MaxAttempts
                THEN /\ attempts' = WithAttempt(Attempt + 1)
                     /\ UNCHANGED <<edited, existing, template, path,
                                    updated_data, outcome, pc>>
                ELSE FrameReturns(EditorFailed, "exhausted")
    /\ UNCHANGED <<syncVars, choiceVars, report>>

\* edit_old_config after the root call: `if updated_data:` save_yaml
NavSave ==
    /\ pc = "returned"
    /\ IF Truthy(updated_data)
       THEN /\ existing_file' = Dumped(updated_data, template)
            /\ pc' = "saved"
       ELSE /\ pc' = "not_saved"
            /\ UNCHANGED existing_file
    /\ UNCHANGED <<template_file, original_file, template, existing,
                   retained_values, filtered_existing, previous, modified,
                   navVars, setupVars, report>>

\* the next run of setup_config: sync_yaml_with_template loads the template
\* file and the saved file, merges them and saves the result
NavSync ==
    /\ pc = "saved"
    /\ LET r == compare_and_update(existing_file, template_file, <<>>)
       IN /\ template' = template_file
          /\ existing' = r.doc
          /\ retained_values' = r.ret
          /\ IF IsDict(r.doc)
             THEN /\ filtered_existing' = Filtered(r.doc)
                  /\ existing_file' =
                        Dumped(SavedConfig(r.doc, Filtered(r.doc)), template_file)
                  /\ report' = Report(r.ret)
                  /\ pc' = "nav_synced"
             ELSE /\ pc' = "raised"
                  /\ UNCHANGED <<filtered_existing, existing_file, report>>
    /\ previous' = [doc |-> existing_file, ret |-> retained_values]
    /\ UNCHANGED <<template_file, original_file, modified, navVars, setupVars>>

NavNext ==
    \/ NavQuit
    \/ NavBack
    \/ NavInvalid
    \/ NavAskReset
    \/ NavConfirm
    \/ NavRestoreAll
    \/ NavSelectKey
    \/ NavListChoice
    \/ NavLeafChoice
    \/ NavNewValue
    \/ NavInputUsername
    \/ NavSave
    \/ NavSync

SpecNav == NavInit /\ [][NavNext]_vars

\* C8: after a confirmed reset of the whole document at the root, merging
\* the document the navigator returned with the template gives a document
\* equal to the template in structure and values, and retains nothing.
C8_ResetRoundTrip ==
    (pc = "nav_synced" /\ outcome = "reset_all") =>
        /\ existing = template_file
        /\ ~NotEmptyRetained(retained_values)

\* the step is an entry the prompt at hand does not accept
InvalidEntry ==
    \/ pc = "browse" /\ entry' = StrV("?")
    \/ AtDictMenu /\ path = <<>> /\ entry' = StrV("b")
    \/ pc \in {"confirm", "restore_all", "leaf"} /\ entry' = StrV("other")
    \/ /\ pc = "new_value"
       /\ NewValueStep(path, entry'.s).kind = "reject"

\* the entry is the fifth invalid one in a row at this prompt; the answer to
\* a confirmation is read once and counted five times
FifthInvalid ==
    /\ InvalidEntry
    /\ pc \notin {"confirm", "restore_all"} => Attempt = MaxAttempts - 1

\* the prompt is left as by a back step: the document is as it was and the
\* caller goes on, the menu for a confirmation, the parent frame for a
\* frame below the root, edit_old_config for the root frame
GivesUp ==
    /\ existing' = existing
    /\ template' = template
    /\ \/ pc = "confirm" /\ pc' = "browse" /\ path' = path
       \/ pc # "confirm" /\ path # <<>> /\ path' = Front(path) /\ pc' = "browse"
       \/ pc # "confirm" /\ path = <<>> /\ pc' = "returned"

\* C17: every prompt of the navigator takes at most five invalid entries: on
\* the fifth it gives up and hands control back to its caller as a back
\* step, without raising and without asking a sixth time.
C17_RetryDiscipline ==
    [][FifthInvalid => GivesUp]_vars

\* C18: 'b' at the Browsing prompt of the root leaves the path empty and the
\* document unchanged, and the root Browsing prompt is shown again; below
\* the root it pops one path segment and the parent's Browsing prompt is
\* shown.
C18_BackStep ==
    [][(pc = "browse" /\ entry' = StrV("b")) =>
          /\ existing' = existing
          /\ template' = template
          /\ pc' = "browse"
          /\ path' = IF path = <<>> THEN <<>> ELSE Front(path)]_vars

\* the document of the session: what the navigator shows, and what the root
\* call returned once it has
NavDocument ==
    IF pc \in {"returned", "saved", "not_saved"} /\ IsDict(Deref(updated_data, template))
    THEN Deref(updated_data, template)
    ELSE Deref(existing, template)

\* C19: selecting active_model or mesh_query_model in the navigator leaves
\* the document and the path unchanged and shows the same menu again, and
\* no sequence of navigator inputs changes either pointer record.
C19_PointersNotEditable ==
    /\ [][(pc = "browse" /\ entry'.k = "option"
           /\ entry'.key \in excluded_keys) =>
             existing' = existing /\ path' = path /\ pc' = "browse"]_vars
    /\ [](pc \in {"browse", "confirm", "restore_all", "leaf", "new_value",
                  "returned", "saved", "not_saved"} =>
             \A key \in excluded_keys \cap DOMAIN original_file.m :
                 /\ key \in DOMAIN NavDocument.m
                 /\ NavDocument.m[key] = original_file.m[key])

\* C20: 'q' at a Browsing prompt, at any depth, makes every open frame
\* return at once; the root call returns the document with every edit of
\* the session, and edit_old_config saves exactly that document.
C20_QuitAll ==
    /\ [][(pc = "browse" /\ entry' = StrV("q")) =>
             /\ pc' = "returned"
             /\ outcome' = "quit_all"
             /\ path' = <<>>
             /\ Deref(updated_data', template') = edited]_vars
    /\ [](outcome = "quit_all" =>
             /\ pc # "not_saved"
             /\ pc = "saved" => existing_file = edited)

\* a session with an edit was ended by 'q' and saved
C20_Witness ==
    /\ pc = "saved"
    /\ outcome = "quit_all"
    /\ entry = StrV("q")
    /\ edited # original_file
    /\ existing_file = edited

\* C21: during a navigator session the template in memory stays equal to
\* the template as loaded: a reset and a leaf's restore-default install a
\* copy, so no later edit of the restored part reaches the template.
C21_TemplateNeverModified ==
    pc \in {"browse", "confirm", "restore_all", "leaf", "new_value",
            "input_username", "returned", "saved", "not_saved"} =>
        template = template_file

\* the value of the leaf of the innermost frame after the step
NextLeaf == At(Deref(existing', template'), path)

\* the innermost frame stored its result and its caller's menu is shown
Stored == pc' = "browse" /\ path' = Front(path)

\* the typed text was counted as one invalid attempt of the prompt
CountedInvalid ==
    /\ NextLeaf = NodeAt(path)
    /\ IF Attempt + 1 < MaxAttempts
       THEN pc' = pc /\ path' = path /\ attempts' = WithAttempt(Attempt + 1)
       ELSE Stored

\* new_value is held by a slot of the provider other than the edited one
StoredModel_OtherSlots(models, slot, new_value) ==
    \E name \in DOMAIN models.m \ {slot} : PyEq(models.m[name], new_value)

\* C22: at the new-value prompt of a model slot, the sentinel
\* "No_default_model" and a value held by another slot of the same provider
\* are counted as one invalid attempt and the slot keeps its value; every
\* other non-empty typed value is stored in the slot.
C22_ModelSlotEditing ==
    [][pc = "new_value" /\ IsModelFrame(path) /\ entry'.s # "" =>
          IF \/ StrV(entry'.s) = No_default_model
             \/ StoredModel_OtherSlots(NodeAt(Front(path)), path[Len(path)].key,
                                       StrV(entry'.s))
          THEN CountedInvalid
          ELSE Stored /\ NextLeaf = StrV(entry'.s)]_vars

\* the typed text parses as a number
ParsesAsNumber(typed) == typed \in Digits

\* C23: at the new-value prompt of a leaf whose template value is an
\* integer (a float), every typed text that parses as an integer (a float)
\* is stored as a number of that type; a text that does not parse is counted
\* as one invalid attempt and the leaf keeps its value.
C23_NumericLeaves ==
    [][pc = "new_value" /\ At(template, path).k \in {"int", "float"} =>
          IF ParsesAsNumber(entry'.s)
          THEN /\ Stored
               /\ NextLeaf = [k |-> At(template, path).k,
                              n |-> NumberTyped(entry'.s)]
          ELSE CountedInvalid]_vars

\* C24: when the dedicated editor of a key uses up its five attempts, the
\* navigator treats it as 'back': the stored value is unchanged, the menu of
\* the parent is shown again, and no failure value is written into the
\* document.
C24_EditorExhaustionIsBack ==
    [][/\ pc = "input_username"
       /\ entry' = StrV("")
       /\ PyEq(NodeAt(path), At(template, path))
       /\ Attempt + 1 = MaxAttempts
       => Stored /\ NextLeaf = NodeAt(path)]_vars

\* C28: every non-empty text typed as the new value of a text leaf, the
\* texts "back", "quit" and "quit_all" included, is stored at the leaf and
\* the menu of the parent is shown again; what the root call returns and
\* edit_old_config saves is a mapping, never a signal's string.
C28_SignalsNeverCollide ==
    /\ [][/\ pc = "new_value"
          /\ ~IsModelFrame(path)
          /\ At(template, path).k \notin {"int", "bool", "float"}
          /\ entry'.s # ""
          => Stored /\ NextLeaf = StrV(entry'.s)]_vars
    /\ [](pc = "returned" => IsDict(Deref(updated_data, template)))
    /\ [](pc = "saved" => IsDict(existing_file))

\* no two model slots of a provider of doc hold the same identifier other
\* than the sentinel
DistinctModels(doc) ==
    IsDict(doc) /\ "api" \in DOMAIN doc.m =>
        \A provider \in DOMAIN doc.m["api"].m :
            LET models == doc.m["api"].m[provider].m["models"].m
            IN \A one, other \in DOMAIN models :
                  one # other /\ PyEq(models[one], models[other])
                     => models[one] = No_default_model

\* C29: from a document whose providers hold distinct model identifiers, no
\* sequence of navigator actions makes two model slots of a provider hold
\* the same identifier (the sentinel apart).
C29_ModelsStayDistinct ==
    DistinctModels(original_file) => DistinctModels(Deref(existing, template))

\* C30: at every Browsing prompt the path is the sequence of keys and
\* indices from the root to the node browsed; every push made when a child
\* is selected is matched by one pop when the child returns, so a child's
\* return to its caller's menu drops one segment and the path is empty when
\* the root call has returned.
C30_PathDiscipline ==
    /\ [](pc = "browse" =>
             /\ HasPath(Deref(existing, template), path)
             /\ Len(attempts) = Len(path) + 1)
    /\ [][(pc \in {"leaf", "new_value", "input_username"} /\ pc' = "browse")
             => path' = Front(path)]_vars
    /\ [](pc = "returned" => path = <<>>)

(***************************************************************************)
(* The provider and pointer validation: get_available_models, choose_model *)
(* and check_application_model_info.  A configuration holds the providers  *)
(* under "api" and the two pointers; a provider has api_key, endpoint,     *)
(* models and max_tokens (which stands for the tuning parameters, all      *)
(* handled by the same loops).                                             *)
(***************************************************************************)

\* the providers and the model slots, in the order of the document
ProviderNames == <<"p1", "p2">>
SlotNames == <<"model_1", "model_2">>

\* the keys of mapping d in the order of the document
KeysInOrder(d, names) == SelectSeq(names, LAMBDA name : name \in DOMAIN d.m)

\* the elements of sequence sq
Range(sq) == {sq[i] : i \in 1..Len(sq)}

\* the endpoint alone decides
HasCredentials_EndpointOnly(details) ==
    /\ Truthy(details.m["endpoint"])
    /\ ~PyEq(details.m["endpoint"], default_endpoint)
\* line 260: key and endpoint are set and are not the placeholders
HasCredentials(details) ==
    /\ Truthy(details.m["api_key"])
    /\ ~PyEq(details.m["api_key"], your_api_key_here)
    /\ Truthy(details.m["endpoint"])
    /\ ~PyEq(details.m["endpoint"], default_endpoint)

\* line 261: the slot values that are not the sentinel, in slot order
valid_models(details) ==
    LET slots == KeysInOrder(details.m["models"], SlotNames)
        values == [i \in 1..Len(slots) |-> details.m["models"].m[slots[i]]]
    IN SelectSeq(values, LAMBDA model : ~PyEq(model, No_default_model))

\* lines 264-267: a copy of the provider without its models, with the
\* pointer's provider and model unassigned
valid_api_info(details) ==
    Dict([key \in (DOMAIN details.m \ {"models"}) \cup {"provider", "model"} |->
            IF key = "provider" THEN your_provider
            ELSE IF key = "model" THEN No_default_model
            ELSE details.m[key]])

get_available_models(config) ==
    LET api == config.m["api"]
        usable == {provider \in DOMAIN api.m :
                      /\ HasCredentials(api.m[provider])
                      /\ valid_models(api.m[provider]) # <<>>}
    IN [available_models |->
            Dict([provider \in usable |-> List(valid_models(api.m[provider]))]),
        valid_api_info |->
            Dict([provider \in usable |-> valid_api_info(api.m[provider])])]

\* lines 272-275: the (provider, model) pairs, provider by provider
RECURSIVE Flattened(_, _)
Flattened(available, providers) ==
    IF providers = <<>> THEN <<>>
    ELSE [i \in 1..Len(available.m[Head(providers)].e) |->
              <<Head(providers), available.m[Head(providers)].e[i]>>]
         \o Flattened(available, Tail(providers))
model_choices(available) ==
    Flattened(available, KeysInOrder(available, ProviderNames))

\* the number 0 is taken too
ValidChoice_FromZero(number, choices) == 0 <= number /\ number <= Len(choices)
\* line 283: 0 < choice + 1 <= len(model_choices)
ValidChoice(number, choices) == 0 < number /\ number <= Len(choices)

\* the model of the pointer is not looked up
ModelListed_Unchecked(model_data, template_data) == TRUE

\* line 432: model_data["model"] in template_data["models"].values()
ModelListed(model_data, template_data) ==
    \E slot \in DOMAIN template_data.m["models"].m :
        PyEq(template_data.m["models"].m[slot], model_data.m["model"])

\* lines 426-437, for a pointer and a provider record
RECURSIVE check_application_model_info(_, _)
check_application_model_info(model_data, template_data) ==
    IF IsDict(template_data)
    THEN \A key \in DOMAIN template_data.m :
            /\ ~ (/\ IsDict(model_data)
                  /\ key \in DOMAIN model_data.m
                  /\ key # "models"
                  /\ ~check_application_model_info(model_data.m[key],
                                                   template_data.m[key]))
            /\ key = "models" => ModelListed(model_data, template_data)
    ELSE PyEq(model_data, template_data)

(***************************************************************************)
(* setup_config, choice "1": the two pointers are validated against the    *)
(* providers and chosen again where they do not hold (lines 480-554).      *)
(***************************************************************************)
ProviderRecord(api_key, endpoint, model_1, model_2) ==
    Dict("api_key" :> api_key @@ "endpoint" :> endpoint
         @@ "models" :> Dict("model_1" :> model_1 @@ "model_2" :> model_2)
         @@ "max_tokens" :> IntV(1))

PointerRecord(provider, model, api_key, endpoint) ==
    Dict("provider" :> provider @@ "model" :> model @@ "api_key" :> api_key
         @@ "endpoint" :> endpoint @@ "max_tokens" :> IntV(1))

TemplateProvider ==
    ProviderRecord(your_api_key_here, default_endpoint, No_default_model,
                   No_default_model)
TemplatePointer ==
    PointerRecord(your_provider, No_default_model, your_api_key_here,
                  default_endpoint)
SetupTemplate ==
    Dict("api" :> Dict("p1" :> TemplateProvider @@ "p2" :> TemplateProvider)
         @@ "active_model" :> TemplatePointer
         @@ "mesh_query_model" :> TemplatePointer)

\* the provider records a configuration file may hold
FirstProviders ==
    {ProviderRecord(api_key, endpoint, model_1, model_2) :
        api_key \in {Null, StrV(""), your_api_key_here, StrV("k1")},
        endpoint \in {StrV(""), default_endpoint, StrV("e1")},
        model_1 \in {No_default_model, StrV("m1")},
        model_2 \in {No_default_model, StrV("m2")}}
SecondProviders ==
    {TemplateProvider,
     ProviderRecord(StrV("k2"), StrV("e2"), StrV("m3"), No_default_model)}

\* the pointers a configuration file may hold, beside the unassigned one:
\* pointers to the first provider with a model of it, a model it does not
\* have, the sentinel or another key, and a pointer to a provider that is
\* not there
PointersTo(details) ==
    {PointerRecord(StrV("p1"), model, details.m["api_key"], details.m["endpoint"]) :
        model \in {StrV("m1"), StrV("m9"), No_default_model}}
    \cup {PointerRecord(StrV("p1"), StrV("m1"), StrV("k9"), details.m["endpoint"]),
          PointerRecord(StrV("p3"), StrV("m1"), StrV("k1"), StrV("e1"))}

SetupConfigs ==
    UNION {{Dict("api" :> Dict("p1" :> first @@ "p2" :> second)
                 @@ "active_model" :> active @@ "mesh_query_model" :> mesh) :
               second \in SecondProviders,
               active \in {TemplatePointer} \cup PointersTo(first),
               mesh \in {TemplatePointer,
                         PointerRecord(StrV("p2"), StrV("m3"), StrV("k2"), StrV("e2"))}} :
           first \in FirstProviders}

SetupInit ==
    /\ template_file = SetupTemplate
    /\ existing_file \in SetupConfigs
    /\ original_file = existing_file
    /\ template = Null
    /\ existing = Null
    /\ retained_values = Null
    /\ filtered_existing = Null
    /\ previous = Null
    /\ modified = <<>>
    /\ path = <<>>
    /\ attempts = <<0>>
    /\ updated_data = Null
    /\ outcome = "none"
    /\ report = Null
    /\ edited = Null
    /\ SetupIdle
    /\ pc = "setup_load"

restVars == <<template_file, original_file, existing, retained_values,
              filtered_existing, previous, modified, path, updated_data,
              outcome, report, entry, edited>>

\* lines 483-484: both documents are loaded
SetupLoad ==
    /\ pc = "setup_load"
    /\ config_data' = existing_file
    /\ template' = template_file
    /\ pc' = "setup_active"
    /\ UNCHANGED <<restVars, existing_file, attempts, available_models,
                   available_api_infos, selection, active_model_flag, checked>>

\* the call of check_application_model_info on pointer name, as recorded
Checked(name) ==
    LET pointer == config_data.m[name]
        record == config_data.m["api"].m[pointer.m["provider"].s]
    IN [model_data |-> pointer, template_data |-> record,
        result |-> check_application_model_info(pointer, record)]

\* lines 487-494 and 507-512: the pointer is unassigned, fails the check or
\* is to be chosen again; then the usable providers are looked up
SetupCheck(name, flag, choose, next) ==
    LET provider == config_data.m[name].m["provider"]
    IN IF provider # your_provider /\ provider.s \notin DOMAIN config_data.m["api"].m
       THEN /\ pc' = "raised"
            /\ UNCHANGED <<attempts, available_models, available_api_infos,
                           checked>>
       ELSE /\ checked' = IF provider = your_provider THEN checked
                          ELSE Checked(name)
            /\ IF provider = your_provider \/ ~Checked(name).result \/ flag
               THEN LET found == get_available_models(config_data)
                    IN /\ available_models' = found.available_models
                       /\ available_api_infos' = found.valid_api_info
                       /\ attempts' = <<0>>
                       /\ pc' = IF found.available_models = EmptyDict
                                THEN "setup_no_models" ELSE choose
               ELSE /\ pc' = next
                    /\ UNCHANGED <<attempts, available_models,
                                   available_api_infos>>

AfterMesh == IF active_model_flag THEN "review_mesh" ELSE "review_active"

SetupCheckActive ==
    /\ pc = "setup_active"
    /\ SetupCheck("active_model", active_model_flag, "choose_active", "setup_mesh")
    /\ UNCHANGED <<restVars, existing_file, template, config_data, selection,
                   active_model_flag>>

SetupCheckMesh ==
    /\ pc \in {"setup_mesh", "assigned_active"}
    /\ SetupCheck("mesh_query_model", FALSE, "choose_mesh", AfterMesh)
    /\ UNCHANGED <<restVars, existing_file, template, config_data, selection,
                   active_model_flag>>

\* model_choices[choice], with Python's indexing from the end below zero
PairAt(choices, choice) ==
    choices[IF choice < 0 THEN Len(choices) + choice + 1 ELSE choice + 1]

\* choose_model, one entry at the prompt: a number or something int()
\* refuses; the fifth invalid entry ends it with (None, None)
NoSelection == [provider |-> Null, model |-> Null]
ChooseModel ==
    /\ pc \in {"choose_active", "choose_mesh"}
    /\ LET choices == model_choices(available_models)
           chosen == IF pc = "choose_active" THEN "chosen_active" ELSE "chosen_mesh"
           invalid == /\ attempts' = <<attempts[1] + 1>>
                      /\ IF attempts[1] + 1 < MaxAttempts
                         THEN UNCHANGED <<selection, pc>>
                         ELSE selection' = NoSelection /\ pc' = chosen
       IN \/ \E number \in -1..(Len(choices) + 1) :
                /\ entry' = IntV(number)
                /\ IF ValidChoice(number, choices)
                   THEN /\ selection' =
                              [provider |-> StrV(PairAt(choices, number - 1)[1]),
                               model |-> PairAt(choices, number - 1)[2]]
                        /\ pc' = chosen
                        /\ UNCHANGED attempts
                   ELSE invalid
          \/ /\ entry' = StrV("z")
             /\ invalid
    /\ UNCHANGED <<template_file, original_file, existing, retained_values,
                   filtered_existing, previous, modified, path, updated_data,
                   outcome, report, edited, existing_file, template, config_data,
                   available_models, available_api_infos, active_model_flag,
                   checked>>

\* only provider and model are copied
Assigned_OnlyIdentity(pointer, info) ==
    Dict([key \in DOMAIN pointer.m |->
            IF key \in {"provider", "model"} THEN info.m[key] ELSE pointer.m[key]])
\* lines 502-503: every key of the provider's info is set in the pointer
Assigned(pointer, info) ==
    Dict([key \in DOMAIN pointer.m \cup DOMAIN info.m |->
            IF key \in DOMAIN info.m THEN info.m[key] ELSE pointer.m[key]])

\* lines 496-505 and 514-522: the selection is put into the pointer and the
\* configuration saved; without a selection setup_config returns False
SetupAssign(name, assigned) ==
    IF ~Truthy(selection.model)
    THEN /\ pc' = "setup_failed"
         /\ UNCHANGED <<config_data, existing_file, available_api_infos>>
    ELSE LET provider == selection.provider.s
             info == Dict([available_api_infos.m[provider].m EXCEPT
                              !["model"] = selection.model,
                              !["provider"] = selection.provider])
             config == Dict([config_data.m EXCEPT
                              ![name] = Assigned(config_data.m[name], info)])
         IN /\ available_api_infos' =
                  Dict([available_api_infos.m EXCEPT ![provider] = info])
            /\ config_data' = config
            /\ existing_file' = Dumped(config, template)
            /\ pc' = assigned

SetupAssignActive ==
    /\ pc = "chosen_active"
    /\ SetupAssign("active_model", "assigned_active")
    /\ active_model_flag' = IF Truthy(selection.model) THEN FALSE
                            ELSE active_model_flag
    /\ UNCHANGED <<restVars, template, attempts, available_models, selection,
                   checked>>

SetupAssignMesh ==
    /\ pc = "chosen_mesh"
    /\ SetupAssign("mesh_query_model", "assigned_mesh")
    /\ UNCHANGED <<restVars, template, attempts, available_models, selection,
                   active_model_flag, checked, entry>>

\* line 524: the active pointer is shown unless it is to be chosen again
SetupAfterMesh ==
    /\ pc = "assigned_mesh"
    /\ pc' = AfterMesh
    /\ UNCHANGED <<restVars, existing_file, template, attempts, setupVars>>

\* the pointer is set back to the template's and the loop starts over
SetupUnassign(name, flag) ==
    LET config == Dict([config_data.m EXCEPT ![name] = template.m[name]])
    IN /\ config_data' = config
       /\ existing_file' = Dumped(config, template)
       /\ active_model_flag' = flag
       /\ pc' = "setup_load"

\* lines 525-533: Enter confirms the active pointer, anything else has it
\* chosen again
SetupReviewActive ==
    /\ pc = "review_active"
    /\ \E typed \in {"", "z"} :
          IF typed # "" THEN SetupUnassign("active_model", TRUE)
          ELSE /\ active_model_flag' = FALSE
               /\ pc' = "review_mesh"
               /\ UNCHANGED <<config_data, existing_file>>
    /\ UNCHANGED <<restVars, template, attempts, available_models,
                   available_api_infos, selection, checked>>

\* lines 535-554: 'b' goes back to the active pointer, Enter saves and
\* ends, anything else has the mesh pointer chosen again
SetupReviewMesh ==
    /\ pc = "review_mesh"
    /\ \E user_input \in {"", "b", "z"} :
          IF user_input = "b" THEN SetupUnassign("active_model", TRUE)
          ELSE IF user_input # "" THEN SetupUnassign("mesh_query_model", FALSE)
          ELSE /\ existing_file' = Dumped(config_data, template)
               /\ pc' = "setup_done"
               /\ UNCHANGED <<config_data, active_model_flag>>
    /\ UNCHANGED <<restVars, template, attempts, available_models,
                   available_api_infos, selection, checked>>

\* the changes of one field of a provider record made between two passes
ProviderEdits(record) ==
    {Dict([record.m EXCEPT !["api_key"] = StrV("k9")]),
     Dict([record.m EXCEPT !["max_tokens"] = IntV(2)])}
    \cup {Dict([record.m EXCEPT !["models"] =
                   Dict([record.m["models"].m EXCEPT ![slot] = StrV("m9")])]) :
             slot \in DOMAIN record.m["models"].m}

\* after a successful pass that assigned the active pointer to the first
\* provider, that provider is edited in the file (menu options 2 and 3 of a
\* later run, which starts with no local value) and option 1 is chosen again
SetupEditProvider ==
    /\ pc = "setup_done"
    /\ existing_file.m["api"] = original_file.m["api"]
    /\ existing_file.m["active_model"] # original_file.m["active_model"]
    /\ existing_file.m["active_model"].m["provider"] = StrV("p1")
    /\ \E record \in ProviderEdits(existing_file.m["api"].m["p1"]) :
          existing_file' =
              Dict([existing_file.m EXCEPT !["api"] =
                      Dict([existing_file.m["api"].m EXCEPT !["p1"] = record])])
    /\ config_data' = Null
    /\ available_models' = Null
    /\ available_api_infos' = Null
    /\ selection' = Null
    /\ checked' = Null
    /\ active_model_flag' = FALSE
    /\ pc' = "setup_load"
    /\ UNCHANGED <<restVars, template, attempts>>

SetupNext ==
    \/ SetupLoad
    \/ SetupCheckActive
    \/ SetupCheckMesh
    \/ ChooseModel
    \/ SetupAssignActive
    \/ SetupAssignMesh
    \/ SetupAfterMesh
    \/ SetupReviewActive
    \/ SetupReviewMesh
    \/ SetupEditProvider

SpecSetup == SetupInit /\ [][SetupNext]_vars

\* the slots of a provider that hold an identifier, by position
HeldSlots(details) ==
    {i \in 1..Len(SlotNames) :
        /\ SlotNames[i] \in DOMAIN details.m["models"].m
        /\ details.m["models"].m[SlotNames[i]] # No_default_model}

\* C13: a provider is a key of the map get_available_models returns exactly
\* when its api_key is set and not the placeholder, its endpoint is set and
\* not the default endpoint, and one of its slots holds something else than
\* "No_default_model"; its list is then its non-sentinel slot values in slot
\* order.
C13_ProviderUsability ==
    available_models # Null =>
        \A provider \in DOMAIN config_data.m["api"].m :
            LET details == config_data.m["api"].m[provider]
                listed == provider \in DOMAIN available_models.m
            IN /\ listed <=>
                    /\ details.m["api_key"] \notin {Null, StrV(""), your_api_key_here}
                    /\ details.m["endpoint"] \notin {Null, StrV(""), default_endpoint}
                    /\ HeldSlots(details) # {}
               /\ listed =>
                    LET models == available_models.m[provider].e
                    IN /\ Len(models) = Cardinality(HeldSlots(details))
                       /\ \E f \in [1..Len(models) -> HeldSlots(details)] :
                             /\ \A i, j \in 1..Len(models) : i < j => f[i] < f[j]
                             /\ \A i \in 1..Len(models) :
                                   models[i] = details.m["models"].m[SlotNames[f[i]]]

\* a provider with both slots filled is listed, one with the template's
\* values is not
C13_Witness ==
    /\ available_models # Null
    /\ "p1" \in DOMAIN available_models.m
    /\ available_models.m["p1"].e = <<StrV("m1"), StrV("m2")>>
    /\ "p2" \notin DOMAIN available_models.m

\* a provider with the placeholder key, an endpoint and a model is not listed
C13_WitnessPlaceholderKey ==
    /\ available_models # Null
    /\ config_data.m["api"].m["p1"] =
          ProviderRecord(your_api_key_here, StrV("e1"), StrV("m1"), No_default_model)
    /\ DOMAIN available_models.m = {"p2"}

\* C14: check_application_model_info(pointer, provider record) returns
\* false whenever the pointer's model is not a slot value of the provider
\* other than "No_default_model", whatever the other pointer fields are.
C14_CheckNeedsListedModel ==
    checked # Null =>
        LET models == checked.template_data.m["models"].m
            listed == \E slot \in DOMAIN models :
                         /\ models[slot] = checked.model_data.m["model"]
                         /\ models[slot] # No_default_model
        IN ~listed => ~checked.result

\* the pointer that has just been assigned
AssignedName ==
    IF pc = "assigned_active" THEN "active_model" ELSE "mesh_query_model"

\* C15: right after setup_config has assigned a pointer from the selection
\* of choose_model, the pointer's provider and model are the selection, its
\* other fields equal the fields of the chosen provider record, the file
\* holds the configuration, and check_application_model_info of the pointer
\* and that record is true.
C15_PointerAssignment ==
    pc \in {"assigned_active", "assigned_mesh"} =>
        LET pointer == config_data.m[AssignedName]
            record == config_data.m["api"].m[selection.provider.s]
        IN /\ pointer.m["provider"] = selection.provider
           /\ pointer.m["model"] = selection.model
           /\ \A key \in DOMAIN pointer.m \ {"provider", "model"} :
                 key \in DOMAIN record.m /\ pointer.m[key] = record.m[key]
           /\ existing_file = config_data
           /\ check_application_model_info(pointer, record)

\* a pointer that named the provider with another key and model has been
\* assigned the second model of that provider
C15_Witness ==
    /\ pc = "assigned_active"
    /\ original_file.m["active_model"].m["api_key"] = StrV("k9")
    /\ selection = [provider |-> StrV("p1"), model |-> StrV("m2")]
    /\ config_data.m["active_model"].m["api_key"] = StrV("k1")
    /\ existing_file # original_file

\* the pair with the given number when the pairs of the first provider are
\* numbered before those of the second
NumberedPair(number) ==
    LET first == IF "p1" \in DOMAIN available_models.m
                 THEN available_models.m["p1"].e ELSE <<>>
    IN IF number <= Len(first)
       THEN [provider |-> StrV("p1"), model |-> first[number]]
       ELSE [provider |-> StrV("p2"),
             model |-> available_models.m["p2"].e[number - Len(first)]]

\* the number of (provider, model) pairs on offer
PairCount ==
    Len(model_choices(available_models))

\* C16: choose_model numbers the pairs 1..N provider by provider, returns
\* the pair with the number entered when that is in 1..N, counts every
\* other entry (0, negative, above N, no number) as invalid, and returns
\* (None, None) on the fifth invalid entry without asking again.
C16_ChooseModel ==
    LET numbered == entry # Null /\ entry.k = "int"
                    /\ entry.n \in 1..PairCount
    IN /\ pc \in {"choose_active", "choose_mesh"} =>
             /\ attempts[1] < MaxAttempts
             /\ attempts[1] > 0 => ~numbered
       /\ pc \in {"chosen_active", "chosen_mesh"} =>
             IF numbered
             THEN selection = NumberedPair(entry.n) /\ attempts[1] < MaxAttempts
             ELSE selection = NoSelection /\ attempts[1] = MaxAttempts

\* the third of three pairs, the only pair of the second provider, was
\* chosen after an invalid entry
C16_Witness ==
    /\ pc = "chosen_active"
    /\ PairCount = 3
    /\ entry = IntV(3)
    /\ attempts[1] = 1
    /\ selection = [provider |-> StrV("p2"), model |-> StrV("m3")]

\* five invalid entries, the last one the number 0
C16_WitnessGivenUp ==
    /\ pc = "chosen_mesh"
    /\ entry = IntV(0)
    /\ selection = NoSelection

\* pointer name of config names a provider of config, its model is held by
\* a slot of that provider and is not the sentinel, and every other field of
\* the provider is in the pointer with an equal value
ConsistentPointer(config, name) ==
    LET pointer == config.m[name]
    IN /\ pointer.m["provider"].s \in DOMAIN config.m["api"].m
       /\ LET record == config.m["api"].m[pointer.m["provider"].s]
          IN /\ pointer.m["model"] # No_default_model
             /\ \E slot \in DOMAIN record.m["models"].m :
                   PyEq(record.m["models"].m[slot], pointer.m["model"])
             /\ \A key \in DOMAIN record.m \ {"models"} :
                   /\ key \in DOMAIN pointer.m
                   /\ PyEq(pointer.m[key], record.m[key])

\* C25: setup_config returns True only when both pointers of the saved
\* configuration are consistent with the provider they name.
C25_SuccessMeansConsistent ==
    pc = "setup_done" =>
        /\ ConsistentPointer(existing_file, "active_model")
        /\ ConsistentPointer(existing_file, "mesh_query_model")

\* the provider named by pointer name is neither the unassigned sentinel
\* nor a key of the provider table
ProviderDeleted(name) ==
    /\ config_data.m[name].m["provider"] # your_provider
    /\ config_data.m[name].m["provider"].s \notin DOMAIN config_data.m["api"].m

\* C27: a pointer whose provider was deleted is treated as stale by the
\* validation pass: a new selection is asked for (or no usable provider is
\* found), and the pass does not fail with an error.
C27_DeletedProviderIsStale ==
    [][/\ pc = "setup_active" /\ ProviderDeleted("active_model")
          => pc' \in {"choose_active", "setup_no_models"}
       /\ pc \in {"setup_mesh", "assigned_active"}
             /\ ProviderDeleted("mesh_query_model")
          => pc' \in {"choose_mesh", "setup_no_models"}]_vars

\* pointer name of config names a provider of the table, and a field of that
\* provider differs from the pointer's or the pointer's model is in none of
\* its slots
Stale(config, name) ==
    LET pointer == config.m[name]
        record == config.m["api"].m[pointer.m["provider"].s]
    IN /\ pointer.m["provider"].s \in DOMAIN config.m["api"].m
       /\ \/ \E key \in DOMAIN record.m \ {"models"} :
                ~PyEq(pointer.m[key], record.m[key])
          \/ \A slot \in DOMAIN record.m["models"].m :
                ~PyEq(record.m["models"].m[slot], pointer.m["model"])

\* the pointer names a provider of the table
Assignable(name) ==
    config_data.m[name].m["provider"].s \in DOMAIN config_data.m["api"].m

\* C26: the validation pass finds a pointer inconsistent and asks for a new
\* selection exactly when a field of its provider differs from the pointer's
\* or its model is in no slot of the provider (a change of another slot does
\* not count), unless the user asked for the active pointer to be chosen
\* again; success is never reported with such a pointer.
C26_StalenessDetection ==
    /\ [][/\ pc = "setup_active" /\ Assignable("active_model")
             => IF Stale(config_data, "active_model") \/ active_model_flag
                THEN pc' \in {"choose_active", "setup_no_models"}
                ELSE pc' = "setup_mesh"
          /\ pc \in {"setup_mesh", "assigned_active"}
                /\ Assignable("mesh_query_model")
             => IF Stale(config_data, "mesh_query_model")
                THEN pc' \in {"choose_mesh", "setup_no_models"}
                ELSE pc' \in {"review_active", "review_mesh"}]_vars
    /\ [](pc = "setup_done" =>
             /\ ~Stale(existing_file, "active_model")
             /\ ~Stale(existing_file, "mesh_query_model"))

\* the active pointer was assigned to p1 by an earlier pass
AssignedEarlier ==
    /\ existing_file.m["api"] # original_file.m["api"]
    /\ config_data.m["active_model"].m["provider"] = StrV("p1")

\* after the assignment a field of the provider was changed, and the pass
\* asks for a new selection
C26_Witness ==
    /\ pc = "choose_active"
    /\ AssignedEarlier
    /\ ~active_model_flag
    /\ checked.model_data = config_data.m["active_model"]
    /\ ~PyEq(config_data.m["active_model"].m["api_key"],
             config_data.m["api"].m["p1"].m["api_key"])

\* after the assignment the slot holding the pointer's model was changed,
\* and the pass asks for a new selection
C26_WitnessModelGone ==
    /\ pc = "choose_active"
    /\ AssignedEarlier
    /\ ~active_model_flag
    /\ checked.model_data = config_data.m["active_model"]
    /\ config_data.m["active_model"].m["model"] = StrV("m1")
    /\ config_data.m["api"].m["p1"].m["models"].m["model_1"] = StrV("m9")

\* after the assignment another slot was changed, and the pass goes on to
\* the other pointer without a new selection
C26_WitnessOtherSlot ==
    /\ pc = "setup_mesh"
    /\ AssignedEarlier
    /\ config_data.m["active_model"].m["model"] = StrV("m1")
    /\ config_data.m["api"].m["p1"].m["models"].m["model_2"] = StrV("m9")
    /\ config_data.m["api"].m["p1"].m["models"].m["model_2"]
          # original_file.m["api"].m["p1"].m["models"].m["model_2"]

====
